---------------------------- MODULE Spec2Model ----------------------------
(***************************************************************************)
(* A model of two leaf components of DALI:                                 *)
(*                                                                         *)
(*  - OpticalFlowBuffer (optical_flow_buffer.h): the RAII wrapper of one   *)
(*    GPU buffer of the vendor optical-flow API.  The vendor calls are the *)
(*    environment: their status codes, handles, device pointers and stride *)
(*    reports are chosen nondeterministically.                             *)
(*                                                                         *)
(*  - NppLoadSymbol / nppIsSymbolAvailable (npp_wrap.cc): the lazy loader  *)
(*    of libnppc / libnppicc and the mutex-protected symbol cache, called  *)
(*    by several threads.  dlopen and dlsym are the environment.           *)
(***************************************************************************)
EXTENDS Integers, Sequences, FiniteSets, TLC

(***************************************************************************)
(* Bounds of the model.                                                    *)
(***************************************************************************)
NumBufs == 2        \* OpticalFlowBuffer objects the program constructs
NumThreads == 2     \* threads calling into npp_wrap.cc
MaxCalls == 2       \* NppLoadSymbol / nppIsSymbolAvailable calls made in all

Bufs == 1 .. NumBufs
Threads == 1 .. NumThreads

(***************************************************************************)
(* Vendor API values (nvOpticalFlowCuda.h, consumed through its interface) *)
(***************************************************************************)
NV_OF_SUCCESS == "NV_OF_SUCCESS"
NV_OF_ERR_GENERIC == "NV_OF_ERR_GENERIC"
Statuses == {NV_OF_SUCCESS, NV_OF_ERR_GENERIC}

\* Unsigned integers are written as little-endian sequences of 16-bit limbs:
\* a size_t has four limbs, a uint32_t two.  <<2, 0, 1, 0>> is 2^32 + 2.
SizeT(l0, l1, l2, l3) == <<l0, l1, l2, l3>>

\* (mutant) a conversion that saturates instead of wrapping
NarrowU32Saturating(n) ==
    IF n[3] = 0 /\ n[4] = 0 THEN <<n[1], n[2]>> ELSE <<65535, 65535>>

\* static_cast<uint32_t>(size_t): the low 32 bits, i.e. the value mod 2^32
NarrowU32(n) == <<n[1], n[2]>>

\* The (width, height, usage, format) tuples handed to the constructor:
\* widths 1 and 2^32 + 2, heights 3 and 2^32 + 4 (one of each fits 32 bits,
\* one does not), with the usage / format pairs of the input and of the
\* output buffers of the optical-flow operator.
CtorInputs ==
    { [width |-> SizeT(1, 0, 0, 0), height |-> SizeT(3, 0, 0, 0),
       usage |-> "NV_OF_BUFFER_USAGE_INPUT", format |-> "NV_OF_BUFFER_FORMAT_GRAYSCALE8"],
      [width |-> SizeT(2, 0, 1, 0), height |-> SizeT(3, 0, 0, 0),
       usage |-> "NV_OF_BUFFER_USAGE_OUTPUT", format |-> "NV_OF_BUFFER_FORMAT_SHORT2"],
      [width |-> SizeT(1, 0, 0, 0), height |-> SizeT(4, 0, 1, 0),
       usage |-> "NV_OF_BUFFER_USAGE_OUTPUT", format |-> "NV_OF_BUFFER_FORMAT_SHORT2"],
      [width |-> SizeT(2, 0, 1, 0), height |-> SizeT(4, 0, 1, 0),
       usage |-> "NV_OF_BUFFER_USAGE_INPUT", format |-> "NV_OF_BUFFER_FORMAT_GRAYSCALE8"] }

\* Buffer handles the vendor can hand out; one per object is always free.
Handles == 1 .. NumBufs

\* The handle the vendor's allocator writes to *handle_ on a successful
\* create: the lowest one not in use, so a destroyed handle's value is reused.
NewHandle(inUse) == CHOOSE h \in Handles \ inUse : \A k \in Handles \ inUse : h <= k

\* A field or local that has not been assigned (never read by the code).
Uninit == -1

\* The device pointer behind a handle when the vendor has one.
DevPtr(h) == 4096 * h

\* NV_OF_CUDA_BUFFER_STRIDE_INFO reports of the vendor: strideInfo[0..1]
StrideInfos == { << [strideXInBytes |-> 256, strideYInBytes |-> 1],
                    [strideXInBytes |-> 512, strideYInBytes |-> 2] >>,
                 << [strideXInBytes |-> 512, strideYInBytes |-> 2],
                    [strideXInBytes |-> 256, strideYInBytes |-> 1] >>,
                 << [strideXInBytes |-> 256, strideYInBytes |-> 1],
                    [strideXInBytes |-> 1024, strideYInBytes |-> 4] >> }

\* stride_info before the vendor has filled it
NoStrideInfo == << >>

NoStride == [x |-> Uninit, y |-> Uninit]
NoDescriptor == [width |-> <<>>, height |-> <<>>,
                 bufferFormat |-> "", bufferUsage |-> ""]
NoArgs == [width |-> <<>>, height |-> <<>>, usage |-> "", format |-> ""]

(***************************************************************************)
(* npp_wrap.cc values                                                      *)
(***************************************************************************)
\* Library file names (CUDA_VERSION >= 11000 branch of the #if)
NppcLibName == "libnppc.so"
NppiccLibName == "libnppicc.so"
NppcLibNameCuVer == "libnppc.so.11"
NppiccLibNameCuVer == "libnppicc.so.11"

Libs == {"nppc", "nppicc"}

\* Symbol names the callers ask for.
Names == {"nppiFn1", "nppiFn2"}

\* What the two installed library files can export: every name is once in
\* neither library, once in libnppicc only, once in libnppc only, once in both.
ExportTables ==
    { [nppicc |-> {},                     nppc |-> {"nppiFn2"}],
      [nppicc |-> {"nppiFn1"},            nppc |-> {}],
      [nppicc |-> {"nppiFn2"},            nppc |-> {"nppiFn1", "nppiFn2"}],
      [nppicc |-> {"nppiFn1", "nppiFn2"}, nppc |-> {"nppiFn1"}] }

\* nullptr, and the address dlsym returns for a symbol a library exports.
NULL == <<"", "">>
Addr(lib, n) == <<lib, n>>

\* A function-local static that has not been initialised yet.
NotLoaded == ""

\* The library a dlopen handle belongs to.
LibOf(handle) ==
    IF handle \in {NppcLibName, NppcLibNameCuVer} THEN "nppc" ELSE "nppicc"

VARIABLES
    \* ---- OpticalFlowBuffer objects ----
    life,          \* life[b]: "unborn" | "live" | "failed" | "destroyed"
    error,         \* error[b]: what the constructor threw ("" when nothing)
    args,          \* args[b]: the constructor's (width, height, usage, format)
    descriptor_,   \* the members of each object
    handle_,
    ptr_,
    stride_,
    calls,         \* calls[b]: the vendor calls made for object b, in order
    createDesc,    \* createDesc[b]: the descriptor handed to the create call
    stride_info,   \* stride_info[b]: what the stride-info call reported
    vendorLive,    \* handles the vendor has created and not yet destroyed
    terminated,    \* std::terminate() has been called
    \* ---- npp_wrap.cc: process-wide statics ----
    nppcDrvLib,    \* static NPPCDRIVER nppcDrvLib   (NppLoadSymbol)
    nppiccDrvLib,  \* static NPPICCDRIVER nppiccDrvLib
    symbol_mutex,  \* 0 when free, else the thread that holds it
    symbol_map,    \* function from the cached names to their addresses
    \* ---- npp_wrap.cc: the threads ----
    pc,            \* pc[t]: where thread t is
    op,            \* op[t]: "resolve" (NppLoadSymbol) or "isAvailable"
    name,          \* name[t]: the argument of the call
    ret,           \* ret[t]: NppLoadSymbol's local ret
    result,        \* result[t]: "true" | "false" | "addr" | "throw" ("" before)
    \* ---- environment and observations ----
    exports,       \* exports[lib]: the symbols the library file defines
    prims,         \* prims[t]: dlopen / dlsym calls made by t's current call
    prior,         \* prior[t]: outcomes of nppIsSymbolAvailable(name[t])
                   \*   calls that had completed when t's call began
    returned,      \* returned[n]: outcomes of completed nppIsSymbolAvailable(n)
    availRuns,     \* availRuns[n]: NppLoadSymbol(n) runs made by
                   \*   nppIsSymbolAvailable
    openRuns,      \* openRuns[lib]: runs of the library's load function
    started        \* calls begun so far

bufVars == <<life, error, args, descriptor_, handle_, ptr_, stride_, calls,
             createDesc, stride_info, vendorLive, terminated>>

nppVars == <<nppcDrvLib, nppiccDrvLib, symbol_mutex, symbol_map, pc, op, name,
             ret, result, exports, prims, prior, returned, availRuns, openRuns,
             started>>

vars == <<life, error, args, descriptor_, handle_, ptr_, stride_, calls,
          createDesc, stride_info, vendorLive, terminated,
          nppcDrvLib, nppiccDrvLib, symbol_mutex, symbol_map, pc, op, name,
          ret, result, exports, prims, prior, returned, availRuns, openRuns,
          started>>

(***************************************************************************)
(* OpticalFlowBuffer                                                       *)
(***************************************************************************)

\* GenerateBufferDescriptor: the size_t dimensions are narrowed to uint32_t.
GenerateBufferDescriptor(width, height, format, usage) ==
    [width |-> NarrowU32(width), height |-> NarrowU32(height),
     bufferFormat |-> format, bufferUsage |-> usage]

\* One vendor call as the function table sees it: the function, the buffer
\* handle passed or returned, the status returned (NV_OF_SUCCESS for the
\* device-pointer query, which returns no status) and the pointer returned.
VCall(fn, h, status, out) == [fn |-> fn, handle |-> h, status |-> status, out |-> out]

\* (mutant) a constructor without the DALI_ENFORCE(ptr_ != 0) check
CtorOutcomeNoPtrCheck(createStatus, p, strideStatus) ==
    IF createStatus # NV_OF_SUCCESS THEN "create_failed"
    ELSE IF strideStatus # NV_OF_SUCCESS THEN "stride_failed"
    ELSE "ok"

\* How far the constructor body gets, given what the vendor answers:
\* CUDA_CALL throws on a status other than success, DALI_ENFORCE on ptr_ = 0.
CtorOutcome(createStatus, p, strideStatus) ==
    IF createStatus # NV_OF_SUCCESS THEN "create_failed"
    ELSE IF p = 0 THEN "null_ptr"
    ELSE IF strideStatus # NV_OF_SUCCESS THEN "stride_failed"
    ELSE "ok"

\* (mutant) a constructor that ignores the status of the create call and
\* goes on to the queries
CtorCallsIgnoringCreateStatus(h, createStatus, p, strideStatus) ==
    << VCall("nvOFCreateGPUBufferCuda",
             IF createStatus = NV_OF_SUCCESS THEN h ELSE Uninit, createStatus, 0),
       VCall("nvOFGPUBufferGetCUdeviceptr", h, NV_OF_SUCCESS, p),
       VCall("nvOFGPUBufferGetStrideInfo", h, strideStatus, 0) >>

\* The vendor calls the constructor body makes, in order.  A constructor that
\* throws does not run the destructor of the object under construction.
CtorCalls(h, createStatus, p, strideStatus) ==
    LET out == CtorOutcome(createStatus, p, strideStatus)
        create == VCall("nvOFCreateGPUBufferCuda",
                        IF createStatus = NV_OF_SUCCESS THEN h ELSE Uninit,
                        createStatus, 0)
        getptr == VCall("nvOFGPUBufferGetCUdeviceptr", h, NV_OF_SUCCESS, p)
        stride == VCall("nvOFGPUBufferGetStrideInfo", h, strideStatus, 0)
    IN  CASE out = "create_failed" -> <<create>>
          [] out = "null_ptr"      -> <<create, getptr>>
          [] OTHER                 -> <<create, getptr, stride>>

\* The exception the constructor leaves with.
CtorError(out) ==
    CASE out = "create_failed" -> "CUDA_CALL"
      [] out = "null_ptr"      -> "DALI_ENFORCE"
      [] out = "stride_failed" -> "CUDA_CALL"
      [] OTHER                 -> ""

\* (mutant) a constructor that records the strides of the last plane
StrideOfLastPlane(si) ==
    [x |-> si[Len(si)].strideXInBytes, y |-> si[Len(si)].strideYInBytes]

\* stride_ = {stride_info.strideInfo[0].strideXInBytes,
\*            stride_info.strideInfo[0].strideYInBytes};
\* (strideInfo[0] is the first element of the sequence)
StrideOf(si) == [x |-> si[1].strideXInBytes, y |-> si[1].strideYInBytes]

\* OpticalFlowBuffer::OpticalFlowBuffer(of_handle, width, height, function_list,
\*                                      usage, format)
Construct(b) ==
    /\ ~terminated
    /\ life[b] = "unborn"
    /\ \E in \in CtorInputs,
          createStatus \in Statuses, strideStatus \in Statuses,
          si \in StrideInfos, nullPtr \in BOOLEAN :
          LET h == NewHandle(vendorLive)
              p == IF nullPtr THEN 0 ELSE DevPtr(h)
              out == CtorOutcome(createStatus, p, strideStatus)
              created == createStatus = NV_OF_SUCCESS
          IN  /\ args' = [args EXCEPT ![b] = in]
              /\ descriptor_' = [descriptor_ EXCEPT ![b] =
                    GenerateBufferDescriptor(in.width, in.height, in.format, in.usage)]
              /\ calls' = [calls EXCEPT ![b] =
                    CtorCalls(h, createStatus, p, strideStatus)]
              /\ vendorLive' = IF created THEN vendorLive \cup {h} ELSE vendorLive
              /\ handle_' = [handle_ EXCEPT ![b] = IF created THEN h ELSE Uninit]
              /\ ptr_' = [ptr_ EXCEPT ![b] = IF created THEN p ELSE Uninit]
              /\ createDesc' = [createDesc EXCEPT ![b] =
                    GenerateBufferDescriptor(in.width, in.height, in.format, in.usage)]
              /\ stride_info' = [stride_info EXCEPT ![b] =
                    IF out = "ok" THEN si ELSE NoStrideInfo]
              /\ stride_' = [stride_ EXCEPT ![b] =
                    IF out = "ok" THEN StrideOf(si) ELSE NoStride]
              /\ life' = [life EXCEPT ![b] = IF out = "ok" THEN "live" ELSE "failed"]
              /\ error' = [error EXCEPT ![b] = CtorError(out)]
    /\ UNCHANGED terminated
    /\ UNCHANGED nppVars

\* (mutant) a destructor that releases the handle twice
DtorCallsTwice(h, err) ==
    << VCall("nvOFDestroyGPUBufferCuda", h, err, 0),
       VCall("nvOFDestroyGPUBufferCuda", h, err, 0) >>

\* The vendor calls the destructor makes: one destroy of handle_.
DtorCalls(h, err) == <<VCall("nvOFDestroyGPUBufferCuda", h, err, 0)>>

\* (mutant) a destructor that only logs a failed destroy
DtorNeverTerminates(err) == FALSE

\* What the destructor does with the status of nvOFDestroyGPUBufferCuda:
\* TRUE when it calls std::terminate().
DtorTerminates(err) == err # NV_OF_SUCCESS

\* OpticalFlowBuffer::~OpticalFlowBuffer()
Destroy(b) ==
    /\ ~terminated
    /\ life[b] = "live"
    /\ \E err \in Statuses :
        /\ calls' = [calls EXCEPT ![b] = @ \o DtorCalls(handle_[b], err)]
        /\ vendorLive' = IF err = NV_OF_SUCCESS
                         THEN vendorLive \ {handle_[b]} ELSE vendorLive
        /\ terminated' = DtorTerminates(err)
    /\ life' = [life EXCEPT ![b] = "destroyed"]
    /\ UNCHANGED <<error, args, descriptor_, handle_, ptr_, stride_,
                   createDesc, stride_info>>
    /\ UNCHANGED nppVars

\* The accessors of a live object.
GetDescriptor(b) == descriptor_[b]
GetHandle(b) == handle_[b]
GetPtr(b) == ptr_[b]
GetStride(b) == stride_[b]

BufInit ==
    /\ life = [b \in Bufs |-> "unborn"]
    /\ error = [b \in Bufs |-> ""]
    /\ args = [b \in Bufs |-> NoArgs]
    /\ descriptor_ = [b \in Bufs |-> NoDescriptor]
    /\ handle_ = [b \in Bufs |-> Uninit]
    /\ ptr_ = [b \in Bufs |-> Uninit]
    /\ stride_ = [b \in Bufs |-> NoStride]
    /\ calls = [b \in Bufs |-> <<>>]
    /\ createDesc = [b \in Bufs |-> NoDescriptor]
    /\ stride_info = [b \in Bufs |-> NoStrideInfo]
    /\ vendorLive = {}
    /\ terminated = FALSE

(***************************************************************************)
(* Properties of OpticalFlowBuffer                                         *)
(***************************************************************************)
Idx(b, fn) == {i \in DOMAIN calls[b] : calls[b][i].fn = fn}

\* The create call of object b succeeded, and the handle it returned.
CreateSucceeded(b) ==
    \E i \in Idx(b, "nvOFCreateGPUBufferCuda") : calls[b][i].status = NV_OF_SUCCESS
CreateFailed(b) ==
    \E i \in Idx(b, "nvOFCreateGPUBufferCuda") : calls[b][i].status # NV_OF_SUCCESS
CreatedHandle(b) ==
    calls[b][CHOOSE i \in Idx(b, "nvOFCreateGPUBufferCuda") :
                 calls[b][i].status = NV_OF_SUCCESS].handle

\* Destroy calls made on handle h for object b.
DestroysOf(b, h) ==
    {i \in Idx(b, "nvOFDestroyGPUBufferCuda") : calls[b][i].handle = h}

\* The device-pointer query of object b answered zero.
NullPtrReturned(b) ==
    \E i \in Idx(b, "nvOFGPUBufferGetCUdeviceptr") : calls[b][i].out = 0

\* Every vendor call made for object b reported success and a usable pointer.
AllVendorCallsSucceeded(b) ==
    /\ \A i \in DOMAIN calls[b] : calls[b][i].status = NV_OF_SUCCESS
    /\ ~NullPtrReturned(b)

\* The life of object b is over: its constructor threw or its destructor ran.
LifeOver(b) == life[b] \in {"failed", "destroyed"}

\* C1: every handle a successful create returned is passed to destroy exactly
\* once by the end of the object's life, whatever the later construction
\* steps answered (null device pointer, failed stride query).
C1_ReleasedExactlyOnce ==
    \A b \in Bufs :
        (LifeOver(b) /\ CreateSucceeded(b))
            => Cardinality(DestroysOf(b, CreatedHandle(b))) = 1

\* C2: when every vendor call succeeds, construction followed by destruction
\* makes exactly one create call, then exactly one destroy call on the handle
\* create returned, and no vendor call on that handle after the destroy.
C2_CreateThenDestroy ==
    \A b \in Bufs :
        (life[b] = "destroyed" /\ AllVendorCallsSucceeded(b)) =>
            LET creates == Idx(b, "nvOFCreateGPUBufferCuda")
                destroys == Idx(b, "nvOFDestroyGPUBufferCuda")
            IN  /\ Cardinality(creates) = 1
                /\ Cardinality(destroys) = 1
                /\ \A i \in creates, j \in destroys :
                      /\ i = 1
                      /\ i < j
                      /\ calls[b][j].handle = calls[b][i].handle
                      /\ calls[b][j].handle = handle_[b]
                      /\ \A k \in DOMAIN calls[b] :
                            k > j => calls[b][k].handle # calls[b][j].handle

C2_Witness ==
    \E b \in Bufs :
        /\ life[b] = "destroyed"
        /\ AllVendorCallsSucceeded(b)
        /\ Len(calls[b]) = 4
        /\ ~terminated

\* A destroy call of some object reported a status other than success.
DestroyFailed ==
    \E b \in Bufs : \E i \in Idx(b, "nvOFDestroyGPUBufferCuda") :
        calls[b][i].status # NV_OF_SUCCESS

\* C3: the process is terminated exactly when a destroy call reported a
\* status other than success (so not when destroy succeeds); the failure
\* raises no error for a caller, and once the process is terminated no
\* operation changes the state any more.
C3_FailedDestroyTerminates ==
    /\ [](terminated <=> DestroyFailed)
    /\ [](\A b \in Bufs : life[b] = "destroyed" => error[b] = "")
    /\ [][terminated => UNCHANGED vars]_vars

C3_Witness ==
    /\ terminated
    /\ DestroyFailed
    /\ \E b \in Bufs : life[b] = "live"

\* C4: create succeeded and the device-pointer query answered zero: the
\* construction fails with an error, makes no stride-info query and no
\* destroy call, and the handle is destroyed at most once.
C4_NullPtrFailsWithoutDestroy ==
    \A b \in Bufs :
        (CreateSucceeded(b) /\ NullPtrReturned(b)) =>
            /\ life[b] = "failed"
            /\ error[b] = "DALI_ENFORCE"
            /\ Idx(b, "nvOFGPUBufferGetStrideInfo") = {}
            /\ Idx(b, "nvOFDestroyGPUBufferCuda") = {}
            /\ Cardinality(DestroysOf(b, CreatedHandle(b))) <= 1

C4_Witness ==
    \E b \in Bufs :
        /\ CreateSucceeded(b)
        /\ NullPtrReturned(b)
        /\ life[b] = "failed"
        /\ CreatedHandle(b) \in vendorLive

\* C10: a create call that does not report success fails the construction
\* with an error; that create call is the only vendor call of the attempt
\* (no retry, no device-pointer query, no stride query, no destroy).
C10_CreateFailureStopsConstruction ==
    \A b \in Bufs :
        CreateFailed(b) =>
            /\ life[b] = "failed"
            /\ error[b] = "CUDA_CALL"
            /\ Len(calls[b]) = 1
            /\ Cardinality(Idx(b, "nvOFCreateGPUBufferCuda")) = 1

C10_Witness ==
    \E b \in Bufs :
        /\ CreateFailed(b)
        /\ life[b] = "failed"
        /\ handle_[b] = Uninit

\* The strides the vendor reported for plane 0 when b was constructed.
Plane0(b) == [x |-> stride_info[b][1].strideXInBytes,
              y |-> stride_info[b][1].strideYInBytes]

\* C11: GetStride() of a live object is the pair of plane-0 strides that the
\* stride-info call reported in its construction, whatever was reported for
\* the other planes, and no step changes it while the object stays live.
C11_StrideIsPlaneZero ==
    /\ [](\A b \in Bufs :
            life[b] = "live" =>
                /\ stride_info[b] \in StrideInfos
                /\ GetStride(b) = Plane0(b))
    /\ [][\A b \in Bufs :
            (life[b] = "live" /\ life'[b] = "live") =>
                GetStride(b)' = GetStride(b)]_vars

\* a live object whose other plane was reported with other strides
C11_Witness ==
    \E b \in Bufs :
        /\ life[b] = "live"
        /\ stride_info[b][2] # stride_info[b][1]
        /\ GetStride(b) = Plane0(b)
        /\ \E c \in Bufs \ {b} : life[c] # "unborn"

\* The device pointer the vendor returned in the construction of b.
ReturnedPtr(b) == { calls[b][i].out : i \in Idx(b, "nvOFGPUBufferGetCUdeviceptr") }

\* C12 as stated: the stored device pointer of an object is non-zero exactly
\* when the object is live (constructed with success and not yet destroyed).
C12_PtrNonZeroIffLive ==
    \A b \in Bufs :
        (ptr_[b] \notin {0, Uninit}) <=> (life[b] = "live")

\* C12 (amended): a live object has a non-zero device pointer, the one the
\* vendor returned for its handle, and its handle is valid at the vendor.
\* (The destructor and a failing constructor do not clear the pointer.)
C12_LivePtrNonZero ==
    \A b \in Bufs :
        life[b] = "live" =>
            /\ GetPtr(b) \notin {0, Uninit}
            /\ ReturnedPtr(b) = {GetPtr(b)}
            /\ GetHandle(b) \in vendorLive

\* a live object next to a destroyed one that still stores its pointer
C12_Witness ==
    \E b, c \in Bufs :
        /\ life[b] = "live"
        /\ GetPtr(b) # 0
        /\ life[c] = "destroyed"
        /\ ptr_[c] \notin {0, Uninit}

\* a size_t that is below 2^32: its two high limbs are zero
Fits32(n) == n[3] = 0 /\ n[4] = 0
\* the size_t with the value of a uint32_t
Widen(u) == <<u[1], u[2], 0, 0>>

\* C20: the descriptor handed to the create call and returned by
\* GetDescriptor() carries the width and the height reduced modulo 2^32 (the
\* two low limbs) and the format and usage as given; its dimensions equal the
\* constructor's exactly when these are below 2^32; no step changes the
\* descriptor of an object that stays live.
C20_DescriptorNarrowed ==
    /\ [](\A b \in Bufs :
            life[b] # "unborn" =>
                /\ createDesc[b] = descriptor_[b]
                /\ descriptor_[b].width = <<args[b].width[1], args[b].width[2]>>
                /\ descriptor_[b].height = <<args[b].height[1], args[b].height[2]>>
                /\ descriptor_[b].bufferFormat = args[b].format
                /\ descriptor_[b].bufferUsage = args[b].usage
                /\ (Widen(descriptor_[b].width) = args[b].width
                        <=> Fits32(args[b].width))
                /\ (Widen(descriptor_[b].height) = args[b].height
                        <=> Fits32(args[b].height)))
    /\ [][\A b \in Bufs :
            (life[b] = "live" /\ life'[b] = "live") =>
                GetDescriptor(b)' = GetDescriptor(b)]_vars

\* a live object constructed with a width of 2^32 or more
C20_Witness ==
    \E b \in Bufs :
        /\ life[b] = "live"
        /\ ~Fits32(args[b].width)
        /\ Widen(GetDescriptor(b).width) # args[b].width
        /\ CreateSucceeded(b)


(***************************************************************************)
(* npp_wrap.cc                                                             *)
(***************************************************************************)

DlOpen(file, ok) == [fn |-> "dlopen", file |-> file, sym |-> "", ok |-> ok]
DlSym(handle, n, found) == [fn |-> "dlsym", file |-> handle, sym |-> n, ok |-> found]

\* The body shared by loadNppcLibrary and loadNppiccLibrary: dlopen the
\* CUDA-versioned name, on failure the plain name, on failure of both throw.
\* okVer / okPlain are what dlopen answers for the two files.
LoadLibrary(verName, plainName, okVer, okPlain) ==
    IF okVer
    THEN [opens |-> <<DlOpen(verName, TRUE)>>, handle |-> verName, throws |-> FALSE]
    ELSE IF okPlain
    THEN [opens |-> <<DlOpen(verName, FALSE), DlOpen(plainName, TRUE)>>,
          handle |-> plainName, throws |-> FALSE]
    ELSE [opens |-> <<DlOpen(verName, FALSE), DlOpen(plainName, FALSE)>>,
          handle |-> NotLoaded, throws |-> TRUE]

\* (mutant) a loader that tries the plain name before the versioned one
loadNppcLibraryPlainFirst(okVer, okPlain) ==
    LoadLibrary(NppcLibName, NppcLibNameCuVer, okPlain, okVer)

loadNppcLibrary(okVer, okPlain) ==
    LoadLibrary(NppcLibNameCuVer, NppcLibName, okVer, okPlain)

\* (mutant) a loader that throws as soon as the versioned name fails
loadNppiccLibraryNoFallback(okVer, okPlain) ==
    IF okVer
    THEN [opens |-> <<DlOpen(NppiccLibNameCuVer, TRUE)>>,
          handle |-> NppiccLibNameCuVer, throws |-> FALSE]
    ELSE [opens |-> <<DlOpen(NppiccLibNameCuVer, FALSE)>>,
          handle |-> NotLoaded, throws |-> TRUE]

loadNppiccLibrary(okVer, okPlain) ==
    LoadLibrary(NppiccLibNameCuVer, NppiccLibName, okVer, okPlain)

\* (mutant) handles that are not static: every call loads the library again
StaticNeverInitialized(handle) == FALSE

\* Whether control has passed the declaration of a function-local static
\* whose initialiser completed.  An initialiser that throws leaves the static
\* uninitialised, and the next call runs it again.
StaticInitialized(handle) == handle # NotLoaded

\* dlsym(handle, n)
dlsym(handle, n) ==
    IF n \in exports[LibOf(handle)] THEN Addr(LibOf(handle), n) ELSE NULL

\* symbol_map.find(n) != symbol_map.end()
MapHas(m, n) == n \in DOMAIN m

\* (mutant) an insert that is lost
MapInsertLost(m, n, ptr) == m

\* (mutant) an insert that replaces the whole map by the new entry
MapInsertReplacingMap(m, n, ptr) == [k \in {n} |-> ptr]

\* symbol_map.insert({n, ptr}): keeps an existing entry
MapInsert(m, n, ptr) ==
    IF n \in DOMAIN m THEN m
    ELSE [k \in DOMAIN m \cup {n} |-> IF k = n THEN ptr ELSE m[k]]

\* (mutant) a hand-written unlock on the return paths only: an exception
\* leaves the mutex locked
LeaveHoldingOnThrow(t, res) ==
    /\ pc' = [pc EXCEPT ![t] = "done"]
    /\ result' = [result EXCEPT ![t] = res]
    /\ symbol_mutex' = IF symbol_mutex = t /\ res # "throw" THEN 0 ELSE symbol_mutex
    /\ returned' = IF op[t] = "isAvailable"
                   THEN [returned EXCEPT ![name[t]] = @ \cup {res}]
                   ELSE returned

\* A call of thread t ends with outcome res: by return, or by an exception
\* that unwinds through the lock_guard.  Either way the mutex is released
\* if t holds it.
Leave(t, res) ==
    /\ pc' = [pc EXCEPT ![t] = "done"]
    /\ result' = [result EXCEPT ![t] = res]
    /\ symbol_mutex' = IF symbol_mutex = t THEN 0 ELSE symbol_mutex
    /\ returned' = IF op[t] = "isAvailable"
                   THEN [returned EXCEPT ![name[t]] = @ \cup {res}]
                   ELSE returned

\* Thread t calls NppLoadSymbol(n) or nppIsSymbolAvailable(n).
Call(t) ==
    /\ ~terminated
    /\ pc[t] \in {"idle", "done"}
    /\ started < MaxCalls
    /\ \E o \in {"resolve", "isAvailable"}, n \in Names :
        /\ op' = [op EXCEPT ![t] = o]
        /\ name' = [name EXCEPT ![t] = n]
        /\ pc' = [pc EXCEPT ![t] = IF o = "isAvailable" THEN "lock" ELSE "init_nppc"]
        /\ prior' = [prior EXCEPT ![t] = IF o = "isAvailable" THEN returned[n] ELSE {}]
    /\ started' = started + 1
    /\ ret' = [ret EXCEPT ![t] = NULL]
    /\ result' = [result EXCEPT ![t] = ""]
    /\ prims' = [prims EXCEPT ![t] = <<>>]
    /\ UNCHANGED <<nppcDrvLib, nppiccDrvLib, symbol_mutex, symbol_map, exports,
                   returned, availRuns, openRuns>>
    /\ UNCHANGED bufVars

\* (mutant) a lock that does not wait for the mutex to be free
LockWithoutWaiting(t) ==
    /\ ~terminated
    /\ pc[t] = "lock"
    /\ symbol_mutex' = t
    /\ pc' = [pc EXCEPT ![t] = "find"]
    /\ UNCHANGED <<nppcDrvLib, nppiccDrvLib, symbol_map, op, name, ret, result,
                   exports, prims, prior, returned, availRuns, openRuns, started>>
    /\ UNCHANGED bufVars

\* (mutant) a lock_guard temporary: the mutex is released at once
LockNotTaken(t) ==
    /\ ~terminated
    /\ pc[t] = "lock"
    /\ symbol_mutex = 0
    /\ pc' = [pc EXCEPT ![t] = "find"]
    /\ UNCHANGED <<nppcDrvLib, nppiccDrvLib, symbol_mutex, symbol_map, op, name,
                   ret, result, exports, prims, prior, returned, availRuns,
                   openRuns, started>>
    /\ UNCHANGED bufVars

\* std::lock_guard<std::mutex> lock(symbol_mutex);
Lock(t) ==
    /\ ~terminated
    /\ pc[t] = "lock"
    /\ symbol_mutex = 0
    /\ symbol_mutex' = t
    /\ pc' = [pc EXCEPT ![t] = "find"]
    /\ UNCHANGED <<nppcDrvLib, nppiccDrvLib, symbol_map, op, name, ret, result,
                   exports, prims, prior, returned, availRuns, openRuns, started>>
    /\ UNCHANGED bufVars

\* (mutant) a lookup with symbol_map[name], which inserts a null entry on a
\* miss before NppLoadSymbol runs
FindInsertingDefault(t) ==
    /\ ~terminated
    /\ pc[t] = "find"
    /\ IF MapHas(symbol_map, name[t])
       THEN /\ Leave(t, IF symbol_map[name[t]] # NULL THEN "true" ELSE "false")
            /\ UNCHANGED <<availRuns, symbol_map>>
       ELSE /\ pc' = [pc EXCEPT ![t] = "init_nppc"]
            /\ availRuns' = [availRuns EXCEPT ![name[t]] = @ + 1]
            /\ symbol_map' = MapInsert(symbol_map, name[t], NULL)
            /\ UNCHANGED <<result, symbol_mutex, returned>>
    /\ UNCHANGED <<nppcDrvLib, nppiccDrvLib, op, name, ret,
                   exports, prims, prior, openRuns, started>>
    /\ UNCHANGED bufVars

\* auto it = symbol_map.find(name); on a hit, return it->second != nullptr;
\* on a miss, call NppLoadSymbol(name).
Find(t) ==
    /\ ~terminated
    /\ pc[t] = "find"
    /\ IF MapHas(symbol_map, name[t])
       THEN /\ Leave(t, IF symbol_map[name[t]] # NULL THEN "true" ELSE "false")
            /\ UNCHANGED availRuns
       ELSE /\ pc' = [pc EXCEPT ![t] = "init_nppc"]
            /\ availRuns' = [availRuns EXCEPT ![name[t]] = @ + 1]
            /\ UNCHANGED <<result, symbol_mutex, returned>>
    /\ UNCHANGED <<nppcDrvLib, nppiccDrvLib, symbol_map, op, name, ret,
                   exports, prims, prior, openRuns, started>>
    /\ UNCHANGED bufVars

\* static NPPCDRIVER nppcDrvLib = loadNppcLibrary();
\* The initialisation of a function-local static is serialised by the
\* language runtime, so it is one step.
InitNppc(t) ==
    /\ ~terminated
    /\ pc[t] = "init_nppc"
    /\ IF StaticInitialized(nppcDrvLib)
       THEN /\ pc' = [pc EXCEPT ![t] = "init_nppicc"]
            /\ UNCHANGED <<nppcDrvLib, prims, openRuns, result, symbol_mutex, returned>>
       ELSE \E okVer \in BOOLEAN, okPlain \in BOOLEAN :
              LET r == loadNppcLibrary(okVer, okPlain)
              IN  /\ prims' = [prims EXCEPT ![t] = @ \o r.opens]
                  /\ openRuns' = [openRuns EXCEPT !["nppc"] = @ + 1]
                  /\ IF r.throws
                     THEN /\ Leave(t, "throw")
                          /\ UNCHANGED nppcDrvLib
                     ELSE /\ nppcDrvLib' = r.handle
                          /\ pc' = [pc EXCEPT ![t] = "init_nppicc"]
                          /\ UNCHANGED <<result, symbol_mutex, returned>>
    /\ UNCHANGED <<nppiccDrvLib, symbol_map, op, name, ret, exports, prior,
                   availRuns, started>>
    /\ UNCHANGED bufVars

\* static NPPICCDRIVER nppiccDrvLib = loadNppiccLibrary();
InitNppicc(t) ==
    /\ ~terminated
    /\ pc[t] = "init_nppicc"
    /\ IF StaticInitialized(nppiccDrvLib)
       THEN /\ pc' = [pc EXCEPT ![t] = "lookup"]
            /\ UNCHANGED <<nppiccDrvLib, prims, openRuns, result, symbol_mutex, returned>>
       ELSE \E okVer \in BOOLEAN, okPlain \in BOOLEAN :
              LET r == loadNppiccLibrary(okVer, okPlain)
              IN  /\ prims' = [prims EXCEPT ![t] = @ \o r.opens]
                  /\ openRuns' = [openRuns EXCEPT !["nppicc"] = @ + 1]
                  /\ IF r.throws
                     THEN /\ Leave(t, "throw")
                          /\ UNCHANGED nppiccDrvLib
                     ELSE /\ nppiccDrvLib' = r.handle
                          /\ pc' = [pc EXCEPT ![t] = "lookup"]
                          /\ UNCHANGED <<result, symbol_mutex, returned>>
    /\ UNCHANGED <<nppcDrvLib, symbol_map, op, name, ret, exports, prior,
                   availRuns, started>>
    /\ UNCHANGED bufVars

\* (mutant) no fallback to libnppc
NeverFallsBack(r) == FALSE

\* (mutant) libnppc is looked up whatever libnppicc answered
AlwaysFallsBack(r) == TRUE

\* Whether NppLoadSymbol goes on to libnppc after the libnppicc lookup:
\* if (!ret)
NeedsFallback(r) == r = NULL

\* The dlsym calls NppLoadSymbol(n) makes once both statics are initialised:
\*   void *ret = nppiccDrvLib ? dlsym(nppiccDrvLib, name) : nullptr;
\*   if (!ret) ret = nppcDrvLib ? dlsym(nppcDrvLib, name) : nullptr;
LookupCalls(n) ==
    LET first == dlsym(nppiccDrvLib, n)
    IN  IF NeedsFallback(first)
        THEN <<DlSym(nppiccDrvLib, n, FALSE),
               DlSym(nppcDrvLib, n, dlsym(nppcDrvLib, n) # NULL)>>
        ELSE <<DlSym(nppiccDrvLib, n, TRUE)>>

\* ... and the address it returns.
LookupResult(n) ==
    LET first == dlsym(nppiccDrvLib, n)
    IN  IF NeedsFallback(first) THEN dlsym(nppcDrvLib, n) ELSE first

\* The lookups of NppLoadSymbol and its return: to the program (resolve), or
\* to nppIsSymbolAvailable, which goes on to the insert.  The handles and
\* the libraries' symbol tables no longer change, so the lookups are one step.
Lookup(t) ==
    /\ ~terminated
    /\ pc[t] = "lookup"
    /\ prims' = [prims EXCEPT ![t] = @ \o LookupCalls(name[t])]
    /\ ret' = [ret EXCEPT ![t] = LookupResult(name[t])]
    /\ IF op[t] = "resolve"
       THEN Leave(t, "addr")
       ELSE /\ pc' = [pc EXCEPT ![t] = "insert"]
            /\ UNCHANGED <<result, symbol_mutex, returned>>
    /\ UNCHANGED <<nppcDrvLib, nppiccDrvLib, symbol_map, op, name, exports,
                   prior, availRuns, openRuns, started>>
    /\ UNCHANGED bufVars

\* symbol_map.insert({name, ptr}); return ptr != nullptr;
Insert(t) ==
    /\ ~terminated
    /\ pc[t] = "insert"
    /\ symbol_map' = MapInsert(symbol_map, name[t], ret[t])
    /\ Leave(t, IF ret[t] # NULL THEN "true" ELSE "false")
    /\ UNCHANGED <<nppcDrvLib, nppiccDrvLib, op, name, ret, exports, prims,
                   prior, availRuns, openRuns, started>>
    /\ UNCHANGED bufVars

NppInit ==
    /\ nppcDrvLib = NotLoaded
    /\ nppiccDrvLib = NotLoaded
    /\ symbol_mutex = 0
    /\ symbol_map = << >>
    /\ pc = [t \in Threads |-> "idle"]
    /\ op = [t \in Threads |-> ""]
    /\ name = [t \in Threads |-> ""]
    /\ ret = [t \in Threads |-> NULL]
    /\ result = [t \in Threads |-> ""]
    /\ exports \in ExportTables
    /\ prims = [t \in Threads |-> <<>>]
    /\ prior = [t \in Threads |-> {}]
    /\ returned = [n \in Names |-> {}]
    /\ availRuns = [n \in Names |-> 0]
    /\ openRuns = [lib \in Libs |-> 0]
    /\ started = 0

NppNext ==
    \E t \in Threads :
        \/ Call(t)
        \/ Lock(t)
        \/ Find(t)
        \/ InitNppc(t)
        \/ InitNppicc(t)
        \/ Lookup(t)
        \/ Insert(t)

(***************************************************************************)
(* Properties of NppLoadSymbol / nppIsSymbolAvailable                      *)
(***************************************************************************)
DrvLib(lib) == IF lib = "nppc" THEN nppcDrvLib ELSE nppiccDrvLib
VerName(lib) == IF lib = "nppc" THEN NppcLibNameCuVer ELSE NppiccLibNameCuVer
PlainName(lib) == IF lib = "nppc" THEN NppcLibName ELSE NppiccLibName

Booleans == {"true", "false"}

\* Thread t has completed a call of nppIsSymbolAvailable / of NppLoadSymbol.
AvailDone(t) == pc[t] = "done" /\ op[t] = "isAvailable"
ResolveDone(t) == pc[t] = "done" /\ op[t] = "resolve"

\* dlopen / dlsym calls in a call's log.
Opens(log) == {i \in DOMAIN log : log[i].fn = "dlopen"}
Lookups(log) == {i \in DOMAIN log : log[i].fn = "dlsym"}

\* In the call with this log, dlopen failed for both file names of lib.
OpenFailedIn(log, lib) ==
    /\ \E i \in Opens(log) : log[i].file = VerName(lib) /\ ~log[i].ok
    /\ \E i \in Opens(log) : log[i].file = PlainName(lib) /\ ~log[i].ok

\* The name is defined by at least one of the two libraries.
Exported(n) == n \in exports["nppicc"] \cup exports["nppc"]

\* C5: as long as no nppIsSymbolAvailable(n) call met a library that does not
\* load, NppLoadSymbol(n) runs at most once on behalf of
\* nppIsSymbolAvailable, exactly once as soon as one call has returned, and
\* all calls return the same boolean.
C5_ResolvedOncePerName ==
    \A n \in Names :
        "throw" \notin returned[n] =>
            /\ availRuns[n] <= 1
            /\ Cardinality(returned[n]) <= 1
            /\ (returned[n] # {} => availRuns[n] = 1)

\* Two threads called nppIsSymbolAvailable(n) before any call for n had
\* completed, and both have returned.
C5_Witness ==
    \E t1 \in Threads, t2 \in Threads :
        /\ t1 # t2
        /\ AvailDone(t1) /\ AvailDone(t2)
        /\ name[t1] = name[t2]
        /\ prior[t1] = {} /\ prior[t2] = {}
        /\ result[t1] = "true" /\ result[t2] = "true"
        /\ availRuns[name[t1]] = 1

\* C6 as stated: after a first nppIsSymbolAvailable(n) call has completed,
\* whatever its outcome, a later call with the same name calls neither dlopen
\* nor dlsym.
C6_NoPrimitivesAfterFirstCall ==
    \A t \in Threads :
        (op[t] = "isAvailable" /\ prior[t] # {}) => prims[t] = <<>>

\* C6 (amended): after a nppIsSymbolAvailable(n) call has returned a boolean,
\* a later call with the same name calls neither dlopen nor dlsym and
\* returns that boolean.
C6_NoPrimitivesAfterFirstReturn ==
    \A t \in Threads :
        (op[t] = "isAvailable" /\ prior[t] \cap Booleans # {}) =>
            /\ prims[t] = <<>>
            /\ pc[t] \in {"lock", "find", "done"}
            /\ pc[t] = "done" => result[t] \in prior[t]

C6_Witness ==
    \E t \in Threads :
        /\ AvailDone(t)
        /\ prior[t] \cap Booleans # {}
        /\ prims[t] = <<>>
        /\ result[t] \in Booleans

\* C7: a completed nppIsSymbolAvailable call has raised an error exactly when
\* during it dlopen failed for both file names of a library; with no such
\* failure, a name that no library defines gives false.
C7_ThrowsOnlyOnLoadFailure ==
    \A t \in Threads :
        AvailDone(t) =>
            /\ result[t] = "throw" <=> \E lib \in Libs : OpenFailedIn(prims[t], lib)
            /\ result[t] \in Booleans \cup {"throw"}
            /\ (result[t] # "throw" /\ ~Exported(name[t])) => result[t] = "false"

\* A first call that opened libnppicc under its plain name only, found the
\* name nowhere and returned false.
C7_Witness ==
    \E t \in Threads :
        /\ AvailDone(t)
        /\ ~Exported(name[t])
        /\ result[t] = "false"
        /\ Lookups(prims[t]) # {}
        /\ \E i \in Opens(prims[t]) : ~prims[t][i].ok

\* C8: a nppIsSymbolAvailable(n) call that returns, the first one or a later
\* one, returns true exactly when n is defined by libnppicc or by libnppc;
\* NppLoadSymbol(n) returns a non-null address in exactly that case.
C8_TrueIffExported ==
    \A t \in Threads :
        /\ (AvailDone(t) /\ result[t] \in Booleans) =>
                (result[t] = "true" <=> Exported(name[t]))
        /\ (ResolveDone(t) /\ result[t] = "addr") =>
                (ret[t] # NULL <=> Exported(name[t]))

\* A later call, answered from the cache, for a name only libnppc defines.
C8_Witness ==
    \E t \in Threads :
        /\ AvailDone(t)
        /\ prior[t] # {}
        /\ prims[t] = <<>>
        /\ result[t] = "true"
        /\ name[t] \in exports["nppc"] \ exports["nppicc"]

\* C9 as stated: the open sequence of each library runs at most once in the
\* life of the process, whether it succeeded or not.
C9_OpenSequenceRunsOnce ==
    \A lib \in Libs : openRuns[lib] <= 1

\* C9 (amended): a library's open sequence runs only inside NppLoadSymbol;
\* once it has succeeded it never runs again; as long as it has not, every
\* NppLoadSymbol call that reaches the library's static runs it again.
C9_OpenedOnceLoaded ==
    [][ /\ \A lib \in Libs :
            /\ DrvLib(lib) # NotLoaded =>
                  /\ openRuns'[lib] = openRuns[lib]
                  /\ DrvLib(lib)' = DrvLib(lib)
            /\ openRuns'[lib] # openRuns[lib] =>
                  \E t \in Threads : pc[t] \in {"init_nppc", "init_nppicc"}
        /\ \A t \in Threads :
            /\ (pc[t] = "init_nppc" /\ pc'[t] # pc[t] /\ nppcDrvLib = NotLoaded)
                  => openRuns'["nppc"] = openRuns["nppc"] + 1
            /\ (pc[t] = "init_nppicc" /\ pc'[t] # pc[t] /\ nppiccDrvLib = NotLoaded)
                  => openRuns'["nppicc"] = openRuns["nppicc"] + 1
      ]_vars

\* A library failed to load at its first use and was loaded by a later call,
\* which ran the open sequence again and completed.
C9_Witness ==
    \E lib \in Libs, t \in Threads :
        /\ openRuns[lib] = 2
        /\ DrvLib(lib) # NotLoaded
        /\ pc[t] = "done" /\ result[t] # "throw"
        /\ \E i \in Opens(prims[t]) : prims[t][i].file = VerName(lib)

\* Thread t is inside nppIsSymbolAvailable past the lock_guard: between the
\* cache lookup and the cache insert (or the return).
InCritical(t) ==
    /\ op[t] = "isAvailable"
    /\ pc[t] \in {"find", "init_nppc", "init_nppicc", "lookup", "insert"}

\* Thread t found its name uncached and is resolving it.
Resolving(t) ==
    /\ op[t] = "isAvailable"
    /\ pc[t] \in {"init_nppc", "init_nppicc", "lookup", "insert"}

\* C13: at most one thread is between the cache lookup and the cache insert,
\* and it holds the mutex; the name a thread found uncached stays uncached
\* until that thread inserts it (nobody else resolves it meanwhile); a name
\* for which a boolean was returned has its entry, with that value.
C13_CacheMutualExclusion ==
    /\ \A t, u \in Threads : (InCritical(t) /\ InCritical(u)) => t = u
    /\ \A t \in Threads : InCritical(t) => symbol_mutex = t
    /\ \A t \in Threads : Resolving(t) => name[t] \notin DOMAIN symbol_map
    /\ \A n \in Names :
          returned[n] \cap Booleans # {} =>
              /\ n \in DOMAIN symbol_map
              /\ returned[n] \cap Booleans =
                     {IF symbol_map[n] # NULL THEN "true" ELSE "false"}

\* one thread about to insert a name, another waiting for the mutex with
\* the same name
C13_Witness ==
    \E t, u \in Threads :
        /\ t # u
        /\ InCritical(t)
        /\ pc[t] = "insert"
        /\ pc[u] = "lock"
        /\ name[u] = name[t]

\* C14 as stated: a thread that looks into the cache, opens a library for
\* the first time or reads a library handle holds the mutex, in calls of
\* NppLoadSymbol and of nppIsSymbolAvailable alike.
C14_HandlesAndCacheUnderMutex ==
    \A t \in Threads :
        pc[t] \in {"find", "init_nppc", "init_nppicc", "lookup", "insert"} =>
            symbol_mutex = t

\* C14 (amended): the cache is accessed only by a thread that holds the
\* mutex, and so are the handles inside nppIsSymbolAvailable; a thread in a
\* direct NppLoadSymbol call opens the libraries and reads the handles
\* without holding the mutex.
C14_CacheUnderMutexOnly ==
    /\ \A t \in Threads :
          pc[t] \in {"find", "insert"} => (op[t] = "isAvailable" /\ symbol_mutex = t)
    /\ \A t \in Threads : InCritical(t) => symbol_mutex = t
    /\ \A t \in Threads :
          (op[t] = "resolve" /\ pc[t] # "idle") => symbol_mutex # t

\* a direct NppLoadSymbol call has opened libnppc while another thread holds
\* the mutex
C14_Witness ==
    \E t, u \in Threads :
        /\ t # u
        /\ op[t] = "resolve"
        /\ pc[t] = "init_nppicc"
        /\ Opens(prims[t]) # {}
        /\ symbol_mutex = u
        /\ InCritical(u)

\* C15: the mutex is free whenever no thread is inside nppIsSymbolAvailable
\* past the lock, whether the calls returned or raised; and every call
\* completes: from some point on no call is in progress (the program makes
\* at most MaxCalls calls).
C15_MutexReleasedCallsComplete ==
    /\ []((\A t \in Threads : ~InCritical(t)) => symbol_mutex = 0)
    /\ <>[](\A t \in Threads : pc[t] \in {"idle", "done"})

\* a call has raised the load error and another thread has taken the mutex
\* after it
C15_Witness ==
    \E t, u \in Threads :
        /\ t # u
        /\ AvailDone(t)
        /\ result[t] = "throw"
        /\ InCritical(u)
        /\ symbol_mutex = u
        /\ "throw" \in prior[u]

\* The places of the dlopen calls for the files of lib in a call's log.
OpensOf(log, lib) ==
    {i \in Opens(log) : log[i].file \in {VerName(lib), PlainName(lib)}}

\* C16: in a call, the dlopen calls for a library are: the versioned name
\* alone when it opened; else the versioned and then the plain name, and
\* the plain name is tried in no other case.  The call raises the load error
\* exactly when both failed for one library.  A successful open gives the
\* library's handle, and every dlsym call for the library is made on that
\* handle.
C16_OpenSequence ==
    /\ \A t \in Threads, lib \in Libs :
          LET log == prims[t]
              os == OpensOf(log, lib)
          IN  /\ \A i, j \in os : log[i].file = log[j].file => i = j
              /\ \A i \in os :
                    /\ log[i].file = PlainName(lib) =>
                          /\ i - 1 \in os
                          /\ log[i - 1].file = VerName(lib)
                          /\ ~log[i - 1].ok
                    /\ (log[i].file = VerName(lib) /\ ~log[i].ok) =>
                          /\ i + 1 \in os
                          /\ log[i + 1].file = PlainName(lib)
                    /\ log[i].ok => DrvLib(lib) = log[i].file
                    /\ (log[i].file = PlainName(lib) /\ ~log[i].ok) =>
                          /\ pc[t] = "done"
                          /\ result[t] = "throw"
                          /\ i = Len(log)
    /\ \A t \in Threads :
          pc[t] = "done" =>
              (result[t] = "throw" <=>
                  \E i \in Opens(prims[t]) :
                      /\ prims[t][i].file \in {NppcLibName, NppiccLibName}
                      /\ ~prims[t][i].ok)
    /\ \A t \in Threads, lib \in Libs :
          \A i \in Lookups(prims[t]) :
              prims[t][i].file \in {VerName(lib), PlainName(lib)} =>
                  prims[t][i].file = DrvLib(lib)

\* libnppc opened under its plain name after the versioned name failed, and
\* a symbol looked up on that handle
C16_Witness ==
    \E t \in Threads :
        /\ pc[t] = "done"
        /\ Cardinality(OpensOf(prims[t], "nppc")) = 2
        /\ nppcDrvLib = NppcLibName
        /\ \E i \in Lookups(prims[t]) : prims[t][i].file = NppcLibName

\* C17: NppLoadSymbol(n) past the loading of both libraries looks n up in
\* libnppicc first and in libnppc only when libnppicc has no n; it returns
\* libnppicc's address when libnppicc exports n (also when both do),
\* libnppc's when only libnppc does, and null when neither does.
C17_NppiccBeforeNppc ==
    \A t \in Threads :
        (pc[t] \in {"insert", "done"} /\ Lookups(prims[t]) # {}) =>
            LET log == prims[t]
                ls == Lookups(log)
                first == CHOOSE i \in ls : \A j \in ls : i <= j
                n == name[t]
            IN  /\ log[first].file = nppiccDrvLib
                /\ nppiccDrvLib \in {NppiccLibNameCuVer, NppiccLibName}
                /\ log[first].sym = n
                /\ log[first].ok <=> n \in exports["nppicc"]
                /\ ls = IF n \in exports["nppicc"] THEN {first} ELSE {first, first + 1}
                /\ first + 1 \in ls =>
                      /\ log[first + 1].file = nppcDrvLib
                      /\ nppcDrvLib \in {NppcLibNameCuVer, NppcLibName}
                      /\ log[first + 1].sym = n
                      /\ log[first + 1].ok <=> n \in exports["nppc"]
                /\ ret[t] = IF n \in exports["nppicc"] THEN <<"nppicc", n>>
                            ELSE IF n \in exports["nppc"] THEN <<"nppc", n>>
                            ELSE NULL

\* a name that both libraries export, resolved to libnppicc's address
C17_Witness ==
    \E t \in Threads :
        /\ ResolveDone(t)
        /\ name[t] \in exports["nppicc"] \cap exports["nppc"]
        /\ ret[t] = <<"nppicc", name[t]>>
        /\ Cardinality(Lookups(prims[t])) = 1

\* C18: no step removes a cache entry or changes its value; a
\* nppIsSymbolAvailable(n) call made after a boolean was returned for n
\* returns that boolean, without a fresh lookup.
C18_EntriesWriteOnce ==
    /\ [][\A n \in DOMAIN symbol_map :
            n \in DOMAIN symbol_map' /\ symbol_map'[n] = symbol_map[n]]_vars
    /\ [](\A t \in Threads :
            (AvailDone(t) /\ prior[t] \cap Booleans # {}) =>
                /\ result[t] \in prior[t] \cap Booleans
                /\ Lookups(prims[t]) = {})

\* a later call answered by the entry an earlier call created
C18_Witness ==
    \E t \in Threads :
        /\ AvailDone(t)
        /\ prior[t] \cap Booleans # {}
        /\ MapHas(symbol_map, name[t])
        /\ result[t] = (IF symbol_map[name[t]] # NULL THEN "true" ELSE "false")

\* C19: the step in which a nppIsSymbolAvailable call raises the load error
\* changes neither the cache nor a library handle, and only a step that
\* returns a boolean changes the cache; a name for which calls have only
\* raised has no entry; by the time a call made after such an error
\* completes, the resolution of its name and the open sequence of a library
\* have run a second time.
C19_LoadErrorChangesNothing ==
    /\ [][\A t \in Threads :
            (op[t] = "isAvailable" /\ pc[t] # "done" /\ pc'[t] = "done"
                /\ result'[t] = "throw") =>
                /\ symbol_map' = symbol_map
                /\ nppcDrvLib' = nppcDrvLib
                /\ nppiccDrvLib' = nppiccDrvLib]_vars
    /\ [][symbol_map' # symbol_map =>
            \E t \in Threads :
                pc[t] = "insert" /\ pc'[t] = "done" /\ result'[t] \in Booleans]_vars
    /\ [](\A n \in Names : returned[n] = {"throw"} => n \notin DOMAIN symbol_map)
    /\ [](\A t \in Threads :
            (AvailDone(t) /\ "throw" \in prior[t]) =>
                /\ availRuns[name[t]] >= 2
                /\ \E lib \in Libs : openRuns[lib] >= 2)

\* after a call that raised the load error with libnppc already open, the
\* next call with the name opens libnppicc and returns a boolean
C19_Witness ==
    \E t \in Threads :
        /\ AvailDone(t)
        /\ prior[t] = {"throw"}
        /\ result[t] \in Booleans
        /\ OpensOf(prims[t], "nppicc") # {}
        /\ OpensOf(prims[t], "nppc") = {}

BufNext == \E b \in Bufs : Construct(b) \/ Destroy(b)

Init == BufInit /\ NppInit

Next == BufNext \/ NppNext

\* The OpticalFlowBuffer objects alone (the resolver is never called, so one
\* installation of the libraries stands for all), the resolver alone, and
\* the program.
InitBuffer == Init /\ exports = CHOOSE e \in ExportTables : TRUE

SpecBuffer == InitBuffer /\ [][BufNext]_vars

SpecNpp == Init /\ [][NppNext]_vars

\* A step of a call in progress of thread t.
ThreadStep(t) ==
    Lock(t) \/ Find(t) \/ InitNppc(t) \/ InitNppicc(t) \/ Lookup(t) \/ Insert(t)

\* The resolver with threads that keep running: a thread whose call can take
\* its next step takes it.  The program is not obliged to make calls.  The
\* locking does not look at the symbols, so one installation of the
\* libraries is taken.
InitNppFair == Init /\ exports = [nppicc |-> {}, nppc |-> {"nppiFn2"}]

SpecNppFair ==
    InitNppFair /\ [][NppNext]_vars /\ \A t \in Threads : WF_vars(ThreadStep(t))

Spec == Init /\ [][Next]_vars



=============================================================================
